---------------------------- MODULE Spec2Model ----------------------------
(***************************************************************************)
(* Model of nodes.py: the two ComfyUI nodes DeepfaceExtractFacesNode and   *)
(* DeepfaceVerifyNode and the shared helper                                *)
(* result_from_images_with_distances.                                      *)
(*                                                                         *)
(* One behaviour is one invocation of one of the three entry points        *)
(* (variable node).  The DeepFace backend is external: every answer it     *)
(* gives is a nondeterministic choice made at the call.                    *)
(*                                                                         *)
(* Floats.  distance, total_distance, average_distance and threshold are   *)
(* Python floats.  A float is modelled by the natural number of units of   *)
(* the smallest positive float it holds; only numbers with at most         *)
(* MantissaBits significant bits are floats, and every arithmetic result   *)
(* is rounded to the nearest float, ties to the even mantissa, as IEEE-754 *)
(* does (with 53 bits, where the model keeps MantissaBits).                *)
(* verified_ratio is modelled in hundredths (0..100).                      *)
(*                                                                         *)
(* Images.  An image is named by its position in its batch and a crop by   *)
(* <<image, detection number>>; the pixel conversions between the host's   *)
(* and the backend's image formats are not part of the model.              *)
(***************************************************************************)
EXTENDS Integers, Sequences, FiniteSets, TLC

\* ------------------------------------------------------------ bounds
MaxProbes == 2
MaxRefs == 3
MaxFaces == 2
MaxImages == 3
MaxBucket == 3
MantissaBits == 3

\* The backend's distances and the caller's thresholds: floats of the model.
Distances == {8, 64}
Thresholds == {20, 28}

\* torch.full([1, 16, 16, 1], 0): the black placeholder image (probe images are 1, 2, ...)
Placeholder == 0

NoResult == <<>>

VARIABLES
    node,                   \* the entry point invoked: "verify", "extract", "assemble"
    pc,                     \* position in the invoked function
    images,                 \* run(images, ...): the input batch
    reference_images,       \* DeepfaceVerifyNode.run: the reference batch
    threshold,
    progress_total,         \* comfy.utils.ProgressBar(total_steps); -1: not created yet
    progress_count,         \* number of progress_bar.update(1) so far
    rejected_image_tuples,
    verified_image_tuples,
    image_counter,
    reference_image_counter,
    total_distance,
    verified_images_count,
    probe_results,          \* the backend's answers for the current probe, in call order
    calls_made,             \* DeepFace.verify / extract_faces calls made
    calls_ok,               \* ... that returned
    error,                  \* the exception leaving run, "none" if none
    result,                 \* the value returned, NoResult before the return
    output_images,          \* DeepfaceExtractFacesNode.run
    detections,             \* what extract_faces returned, per call
    image_tuples,           \* argument of result_from_images_with_distances
    appended                \* that argument as the caller built it (before the in-place sort)

vars == <<node, pc, images, reference_images, threshold, progress_total, progress_count,
          rejected_image_tuples, verified_image_tuples, image_counter,
          reference_image_counter, total_distance, verified_images_count, probe_results,
          calls_made, calls_ok, error, result, output_images, detections, image_tuples,
          appended>>

\* ------------------------------------------------------------ floats
RECURSIVE Quantum(_)
\* The spacing of the floats around x >= 0.
Quantum(x) == IF x < 2^MantissaBits THEN 1 ELSE 2 * Quantum(x \div 2)

\* The float nearest to num/den (num >= 0, den > 0), ties to even.
RoundToFloat(num, den) ==
    LET q == Quantum(num \div den)
        lo == ((num \div den) \div q) * q
        hi == lo + q
    IN  IF 2 * num < (lo + hi) * den THEN lo
        ELSE IF 2 * num > (lo + hi) * den THEN hi
        ELSE IF (lo \div q) % 2 = 0 THEN lo ELSE hi

IsFloat(x) == x \in Nat /\ RoundToFloat(x, 1) = x

\* total_distance += distance
FloatAdd(a, b) == RoundToFloat(a + b, 1)

\* total_distance / len(deepface_reference_images)
FloatDiv(a, n) == RoundToFloat(a, n)

\* round(verified_images_count / len(deepface_reference_images), 2), in hundredths
\* (the nearest hundredth; a quotient exactly halfway, which takes a reference count
\* that is a multiple of 8, goes to the even hundredth, as round(1/8, 2) = 0.12)
Round2(count, n) ==
    LET q == (100 * count) \div n
        r == (100 * count) % n
    IN  IF 2 * r > n \/ (2 * r = n /\ q % 2 = 1) THEN q + 1 ELSE q

\* ------------------------------------------------------------ helpers
Batch(n) == [i \in 1..n |-> i]

RECURSIVE SeqsUpTo(_, _)
SeqsUpTo(S, n) ==
    IF n = 0 THEN {<<>>}
    ELSE LET shorter == SeqsUpTo(S, n - 1)
         IN  shorter \cup {Append(s, x) : s \in {t \in shorter : Len(t) = n - 1}, x \in S}

Column(rows, k) == [i \in 1..Len(rows) |-> rows[i][k]]


\* ------------------------------------------------------------ result assembly
\* Mutant: a sort that puts a row before the rows of equal distance already placed.
InsertByDistance_BeforeEqual(sorted, row) ==
    LET k == Cardinality({i \in 1..Len(sorted) : sorted[i][2] < row[2]})
    IN  SubSeq(sorted, 1, k) \o <<row>> \o SubSeq(sorted, k + 1, Len(sorted))

\* list.sort(key=lambda row: row[1]) is stable: a row goes behind every row already
\* placed whose distance is not greater.
InsertByDistance(sorted, row) ==
    LET k == Cardinality({i \in 1..Len(sorted) : sorted[i][2] <= row[2]})
    IN  SubSeq(sorted, 1, k) \o <<row>> \o SubSeq(sorted, k + 1, Len(sorted))

RECURSIVE SortPrefix(_, _)
SortPrefix(rows, n) ==
    IF n = 0 THEN <<>> ELSE InsertByDistance(SortPrefix(rows, n - 1), rows[n])

\* image_tuples.sort(key=lambda row: row[1])
SortByDistance(rows) == SortPrefix(rows, Len(rows))

\* Mutant: no placeholder for an empty bucket.
ImagesOrPlaceholder_None(batch) == batch

\* torch.stack(images, dim=0), or the placeholder batch torch.cat((i, i, i), dim=-1)
ImagesOrPlaceholder(batch) == IF Len(batch) > 0 THEN batch ELSE <<Placeholder>>

\* The value returned for an argument list; the list itself is left sorted.
result_from_images_with_distances(rows) ==
    LET sorted == SortByDistance(rows)
    IN  <<ImagesOrPlaceholder(Column(sorted, 1)), Column(sorted, 2), Column(sorted, 3)>>

\* ------------------------------------------------------------ the backend
\* Mutant: enforce_detection left at the backend's default, True.
EnforceDetection_True == TRUE

\* enforce_detection=False, as run passes it to DeepFace.extract_faces
EnforceDetection == FALSE

\* DeepFace.extract_faces when the detector finds n faces: a detection failure (no
\* face found) raises only if enforce_detection is set.
DetectionRaises(n, enforce_detection) == n = 0 /\ enforce_detection

\* What DeepFace.extract_faces returns for image img with n faces found: the crops
\* ("face" of each detection) in detection order.
ExtractFaces(img, n) == [k \in 1..n |-> <<img, k>>]

\* comfy_image_from_deepface_image: a batch of one image
ComfyImage(face) == <<face>>

\* Mutant: the append is outside the inner loop; only the last face is kept.
FaceImages_LastOnly(detected_faces) ==
    IF Len(detected_faces) = 0 THEN <<>>
    ELSE <<ComfyImage(detected_faces[Len(detected_faces)])>>

\* lines 77-80: the face images appended for one image's detections
FaceImages(detected_faces) ==
    [k \in 1..Len(detected_faces) |-> ComfyImage(detected_faces[k])]

RECURSIVE TorchCat(_)
\* torch.cat(output_images, dim=0)
TorchCat(batches) ==
    IF Len(batches) = 0 THEN <<>> ELSE Head(batches) \o TorchCat(Tail(batches))

\* ------------------------------------------------------------ Init
Triples == {<<i, d, r>> : i \in 1..MaxBucket, d \in Distances, r \in {0, 100}}

InitCommon ==
    /\ pc = "start"
    /\ progress_total = -1
    /\ progress_count = 0
    /\ rejected_image_tuples = <<>>
    /\ verified_image_tuples = <<>>
    /\ image_counter = 0
    /\ reference_image_counter = 1
    /\ total_distance = 0
    /\ verified_images_count = 0
    /\ probe_results = <<>>
    /\ calls_made = 0
    /\ calls_ok = 0
    /\ error = "none"
    /\ result = NoResult
    /\ output_images = <<>>
    /\ detections = <<>>

Init ==
    /\ InitCommon
    /\ \/ /\ node = "verify"
          /\ images \in {Batch(n) : n \in 0..MaxProbes}
          /\ reference_images \in {Batch(n) : n \in 0..MaxRefs}
          /\ threshold \in Thresholds
          /\ image_tuples = <<>>
       \/ /\ node = "extract"
          /\ images \in {Batch(n) : n \in 0..MaxImages}
          /\ reference_images = <<>>
          /\ threshold = 0
          /\ image_tuples = <<>>
       \/ /\ node = "assemble"
          /\ images = <<>>
          /\ reference_images = <<>>
          /\ threshold = 0
          /\ image_tuples \in SeqsUpTo(Triples, MaxBucket)
    /\ appended = image_tuples

\* ------------------------------------------------------------ DeepfaceVerifyNode.run
verifyLocals == <<image_counter, reference_image_counter, total_distance,
                  verified_images_count, probe_results>>
buckets == <<rejected_image_tuples, verified_image_tuples>>
inputs == <<node, images, reference_images, threshold>>
extractVars == <<output_images, detections>>
assembleVars == <<image_tuples, appended>>

\* Mutant: the total counts the probes only.
TotalSteps_ProbesOnly(n_references, n_images) == n_images

\* total_steps = len(deepface_reference_images) * len(images)
TotalSteps(n_references, n_images) == n_references * n_images

\* lines 149-158: the reference list, the progress bar, the empty buckets
VerifyStart ==
    /\ node = "verify" /\ pc = "start"
    /\ progress_total' = TotalSteps(Len(reference_images), Len(images))
    /\ progress_count' = 0
    /\ rejected_image_tuples' = <<>>
    /\ verified_image_tuples' = <<>>
    /\ image_counter' = 0
    /\ pc' = "probe_loop"
    /\ UNCHANGED <<inputs, reference_image_counter, total_distance, verified_images_count,
                   probe_results, calls_made, calls_ok, error, result, extractVars,
                   assembleVars>>

\* Mutant: total_distance is initialised once, before the probe loop.
NextProbe_NoReset ==
    /\ node = "verify" /\ pc = "probe_loop"
    /\ image_counter < Len(images)
    /\ reference_image_counter' = 1
    /\ verified_images_count' = 0
    /\ probe_results' = <<>>
    /\ pc' = "ref_loop"
    /\ UNCHANGED <<inputs, progress_total, progress_count, buckets, image_counter,
                   total_distance, calls_made, calls_ok, error, result, extractVars,
                   assembleVars>>

\* lines 159-166: the next probe, its accumulators reset
NextProbe ==
    /\ node = "verify" /\ pc = "probe_loop"
    /\ image_counter < Len(images)
    /\ reference_image_counter' = 1
    /\ total_distance' = 0
    /\ verified_images_count' = 0
    /\ probe_results' = <<>>
    /\ pc' = "ref_loop"
    /\ UNCHANGED <<inputs, progress_total, progress_count, buckets, image_counter,
                   calls_made, calls_ok, error, result, extractVars, assembleVars>>

\* lines 167-168: the next reference; the progress bar is advanced before the call
ProgressUpdate ==
    /\ node = "verify" /\ pc = "ref_loop"
    /\ reference_image_counter <= Len(reference_images)
    /\ progress_count' = progress_count + 1
    /\ pc' = "verify"
    /\ UNCHANGED <<inputs, progress_total, buckets, verifyLocals, calls_made, calls_ok,
                   error, result, extractVars, assembleVars>>

\* lines 170-183: DeepFace.verify returns {"distance": distance, "verified": is_verified}
VerifyReturns ==
    /\ node = "verify" /\ pc = "verify"
    /\ \E distance \in Distances, is_verified \in BOOLEAN :
        /\ probe_results' = Append(probe_results, <<distance, is_verified>>)
        /\ total_distance' = FloatAdd(total_distance, distance)
        /\ verified_images_count' =
               IF is_verified THEN verified_images_count + 1 ELSE verified_images_count
    /\ reference_image_counter' = reference_image_counter + 1
    /\ calls_made' = calls_made + 1
    /\ calls_ok' = calls_ok + 1
    /\ pc' = "ref_loop"
    /\ UNCHANGED <<inputs, progress_total, progress_count, buckets, image_counter, error,
                   result, extractVars, assembleVars>>

\* Mutant: the failure is caught and the loop goes on with the next reference.
VerifyRaises_Swallowed ==
    /\ node = "verify" /\ pc = "verify"
    /\ calls_made' = calls_made + 1
    /\ reference_image_counter' = reference_image_counter + 1
    /\ pc' = "ref_loop"
    /\ UNCHANGED <<inputs, progress_total, progress_count, buckets, image_counter,
                   total_distance, verified_images_count, probe_results, calls_ok, error,
                   result, extractVars, assembleVars>>

\* lines 170-176: DeepFace.verify raises; run has no handler
VerifyRaises ==
    /\ node = "verify" /\ pc = "verify"
    /\ calls_made' = calls_made + 1
    /\ error' = "BackendError"
    /\ pc' = "raised"
    /\ UNCHANGED <<inputs, progress_total, progress_count, buckets, verifyLocals, calls_ok,
                   result, extractVars, assembleVars>>

\* Mutant: <= for <.
IsVerified_Leq(average_distance, thr) == average_distance <= thr

\* average_distance < threshold
IsVerified(average_distance, thr) == average_distance < thr

\* Mutant: two ifs for the if/else; a verified probe is appended to both buckets.
Classify_NoElse ==
    /\ node = "verify" /\ pc = "ref_loop"
    /\ reference_image_counter > Len(reference_images)
    /\ Len(reference_images) > 0
    /\ LET average_distance == FloatDiv(total_distance, Len(reference_images))
           verified_ratio == Round2(verified_images_count, Len(reference_images))
           row == <<images[image_counter + 1], average_distance, verified_ratio>>
       IN  /\ verified_image_tuples' =
                   IF average_distance < threshold
                   THEN Append(verified_image_tuples, row) ELSE verified_image_tuples
           /\ rejected_image_tuples' = Append(rejected_image_tuples, row)
    /\ image_counter' = image_counter + 1
    /\ pc' = "probe_loop"
    /\ UNCHANGED <<inputs, progress_total, progress_count, reference_image_counter,
                   total_distance, verified_images_count, probe_results, calls_made,
                   calls_ok, error, result, extractVars, assembleVars>>

\* lines 185-194 with at least one reference: the probe's tuple goes to one bucket
Classify ==
    /\ node = "verify" /\ pc = "ref_loop"
    /\ reference_image_counter > Len(reference_images)
    /\ Len(reference_images) > 0
    /\ LET average_distance == FloatDiv(total_distance, Len(reference_images))
           verified_ratio == Round2(verified_images_count, Len(reference_images))
           row == <<images[image_counter + 1], average_distance, verified_ratio>>
       IN  IF IsVerified(average_distance, threshold)
           THEN /\ verified_image_tuples' = Append(verified_image_tuples, row)
                /\ UNCHANGED rejected_image_tuples
           ELSE /\ rejected_image_tuples' = Append(rejected_image_tuples, row)
                /\ UNCHANGED verified_image_tuples
    /\ image_counter' = image_counter + 1
    /\ pc' = "probe_loop"
    /\ UNCHANGED <<inputs, progress_total, progress_count, reference_image_counter,
                   total_distance, verified_images_count, probe_results, calls_made,
                   calls_ok, error, result, extractVars, assembleVars>>

\* line 185 with no reference: total_distance / 0
DivisionByZero ==
    /\ node = "verify" /\ pc = "ref_loop"
    /\ reference_image_counter > Len(reference_images)
    /\ Len(reference_images) = 0
    /\ error' = "ZeroDivisionError"
    /\ pc' = "raised"
    /\ UNCHANGED <<inputs, progress_total, progress_count, buckets, verifyLocals,
                   calls_made, calls_ok, result, extractVars, assembleVars>>

\* line 196: both buckets assembled (each sorted in place), the six outputs returned
VerifyReturn ==
    /\ node = "verify" /\ pc = "probe_loop"
    /\ image_counter = Len(images)
    /\ result' = result_from_images_with_distances(verified_image_tuples)
                 \o result_from_images_with_distances(rejected_image_tuples)
    /\ verified_image_tuples' = SortByDistance(verified_image_tuples)
    /\ rejected_image_tuples' = SortByDistance(rejected_image_tuples)
    /\ pc' = "returned"
    /\ UNCHANGED <<inputs, progress_total, progress_count, verifyLocals, calls_made,
                   calls_ok, error, extractVars, assembleVars>>

\* ------------------------------------------------------------ DeepfaceExtractFacesNode.run
\* line 66 (image_counter is the position of the for loop over images)
ExtractStart ==
    /\ node = "extract" /\ pc = "start"
    /\ output_images' = <<>>
    /\ image_counter' = 0
    /\ pc' = "image_loop"
    /\ UNCHANGED <<inputs, progress_total, progress_count, buckets, reference_image_counter,
                   total_distance, verified_images_count, probe_results, calls_made,
                   calls_ok, error, result, detections, assembleVars>>

\* lines 67-80: one image: extract_faces is called and every face it returns is
\* appended; if it raises, run has no handler
ExtractImage ==
    /\ node = "extract" /\ pc = "image_loop"
    /\ image_counter < Len(images)
    /\ calls_made' = calls_made + 1
    /\ \E n \in 0..MaxFaces :
        IF DetectionRaises(n, EnforceDetection)
        THEN /\ error' = "BackendError"
             /\ pc' = "raised"
             /\ UNCHANGED <<image_counter, calls_ok, extractVars>>
        ELSE LET detected_faces == ExtractFaces(images[image_counter + 1], n)
             IN  /\ output_images' = output_images \o FaceImages(detected_faces)
                 /\ detections' = Append(detections, detected_faces)
                 /\ image_counter' = image_counter + 1
                 /\ calls_ok' = calls_ok + 1
                 /\ UNCHANGED <<pc, error>>
    /\ UNCHANGED <<inputs, progress_total, progress_count, buckets,
                   reference_image_counter, total_distance, verified_images_count,
                   probe_results, result, assembleVars>>

\* lines 82-85
ExtractReturn ==
    /\ node = "extract" /\ pc = "image_loop"
    /\ image_counter = Len(images)
    /\ result' = IF Len(output_images) > 0 THEN <<TorchCat(output_images)>> ELSE << <<>> >>
    /\ pc' = "returned"
    /\ UNCHANGED <<inputs, progress_total, progress_count, buckets, verifyLocals, calls_made,
                   calls_ok, error, extractVars, assembleVars>>

\* ------------------------------------------------------------ result_from_images_with_distances
\* lines 29-41, called on its own
Assemble ==
    /\ node = "assemble" /\ pc = "start"
    /\ result' = result_from_images_with_distances(image_tuples)
    /\ image_tuples' = SortByDistance(image_tuples)
    /\ pc' = "returned"
    /\ UNCHANGED <<inputs, progress_total, progress_count, buckets, verifyLocals, calls_made,
                   calls_ok, error, extractVars, appended>>

\* ------------------------------------------------------------ specification
Next ==
    \/ VerifyStart
    \/ NextProbe
    \/ ProgressUpdate
    \/ VerifyReturns
    \/ VerifyRaises
    \/ Classify
    \/ DivisionByZero
    \/ VerifyReturn
    \/ ExtractStart
    \/ ExtractImage
    \/ ExtractReturn
    \/ Assemble

Spec == Init /\ [][Next]_vars

\* ------------------------------------------------------------ properties
Occurrences(rows, img) == Cardinality({i \in 1..Len(rows) : rows[i][1] = img})

\* The permutations of 1..n.
Perms(n) == {f \in [1..n -> 1..n] : \A i, j \in 1..n : f[i] = f[j] => i = j}

VerifyReturned == node = "verify" /\ pc = "returned"

\* A probe has just been classified: its accumulators and the backend's answers for
\* it are still in place.
JustClassified == node = "verify" /\ pc = "probe_loop" /\ image_counter > 0

\* The row appended for probe img, when there is exactly one.
RowOf(img) ==
    CHOOSE row \in {verified_image_tuples[i] : i \in 1..Len(verified_image_tuples)}
                   \cup {rejected_image_tuples[i] : i \in 1..Len(rejected_image_tuples)} :
        row[1] = img

\* C1: when DeepfaceVerifyNode.run returns for a non-empty reference set, every probe
\* is in exactly one of the two buckets, once, and the bucket sizes sum to the number
\* of probes.
C1_ProbesPartitioned ==
    (VerifyReturned /\ Len(reference_images) > 0) =>
        /\ \A p \in 1..Len(images) :
               Occurrences(verified_image_tuples, images[p])
                   + Occurrences(rejected_image_tuples, images[p]) = 1
        /\ Len(verified_image_tuples) + Len(rejected_image_tuples) = Len(images)

C1_Witness ==
    /\ VerifyReturned
    /\ Len(verified_image_tuples) > 0
    /\ Len(rejected_image_tuples) > 0

\* C2: a probe is appended to the verified bucket iff its average_distance is strictly
\* below threshold; an average equal to threshold goes to the rejected bucket.
C2_BucketingExact ==
    node = "verify" =>
        /\ \A i \in 1..Len(verified_image_tuples) : verified_image_tuples[i][2] < threshold
        /\ \A i \in 1..Len(rejected_image_tuples) : rejected_image_tuples[i][2] >= threshold
        /\ JustClassified =>
               LET average_distance == FloatDiv(total_distance, Len(reference_images))
                   img == images[image_counter]
               IN  /\ Occurrences(verified_image_tuples, img) = 1
                       <=> average_distance < threshold
                   /\ Occurrences(rejected_image_tuples, img) = 1
                       <=> average_distance >= threshold
                   /\ RowOf(img)[2] = average_distance

C2_Witness ==
    /\ JustClassified
    /\ Occurrences(rejected_image_tuples, images[image_counter]) = 1
    /\ RowOf(images[image_counter])[2] = threshold
    /\ Len(verified_image_tuples) > 0

AssembleReturned == node = "assemble" /\ pc = "returned"

\* Positions 1..n of the three returned sequences are the rows of `before`, reordered
\* together by the permutation f.
ReorderedBy(f, before, images_out, distances_out, ratios_out) ==
    \A i \in 1..Len(before) :
        <<images_out[i], distances_out[i], ratios_out[i]>> = before[f[i]]

\* C3: the returned images, distances and ratios are the bucket's rows reordered
\* together (no row lost or duplicated), ascending by distance, rows of equal
\* distance in the order in which they were appended.  (The images of an empty
\* bucket are the placeholder of C4.)
C3_StableSortedTogether ==
    /\ AssembleReturned =>
           /\ Len(result[2]) = Len(appended)
           /\ Len(result[3]) = Len(appended)
           /\ \E f \in Perms(Len(appended)) :
                  /\ ReorderedBy(f, appended, result[1], result[2], result[3])
                  /\ \A i, j \in 1..Len(appended) :
                         i < j => /\ result[2][i] <= result[2][j]
                                  /\ result[2][i] = result[2][j] => f[i] < f[j]
           /\ image_tuples = [i \in 1..Len(appended) |->
                                  <<result[1][i], result[2][i], result[3][i]>>]
    /\ VerifyReturned =>
           \* probes are appended in input order: ties keep ascending probe numbers
           \A h \in {0, 3} : \A i, j \in 1..Len(result[h + 2]) :
               i < j => /\ result[h + 2][i] <= result[h + 2][j]
                        /\ result[h + 2][i] = result[h + 2][j]
                               => result[h + 1][i] < result[h + 1][j]

C3_Witness ==
    /\ AssembleReturned
    /\ \E i, j \in 1..Len(appended) : i < j /\ appended[i][2] > appended[j][2]
    /\ \E i, j \in 1..Len(appended) :
           i < j /\ appended[i][2] = appended[j][2] /\ appended[i][1] > appended[j][1]

\* C4: a non-empty bucket gives three sequences of the bucket's length, an empty one
\* exactly one placeholder image with no distance and no ratio; so both image outputs
\* of a DeepfaceVerifyNode.run that returns are non-empty, an empty probe set included.
C4_LengthsAndPlaceholder ==
    /\ AssembleReturned =>
           IF Len(appended) > 0
           THEN \A k \in 1..3 : Len(result[k]) = Len(appended)
           ELSE result = <<<<Placeholder>>, <<>>, <<>>>>
    /\ VerifyReturned =>
           /\ Len(result) = 6
           /\ Len(result[1]) > 0 /\ Len(result[4]) > 0
           /\ Len(result[1]) = IF Len(result[2]) > 0 THEN Len(result[2]) ELSE 1
           /\ Len(result[4]) = IF Len(result[5]) > 0 THEN Len(result[5]) ELSE 1
           /\ Len(result[2]) = Len(result[3]) /\ Len(result[5]) = Len(result[6])

C4_Witness ==
    /\ VerifyReturned
    /\ images = <<>>
    /\ result = <<<<Placeholder>>, <<>>, <<>>, <<Placeholder>>, <<>>, <<>>>>

\* C5: with an empty reference set DeepfaceVerifyNode.run is rejected with a
\* precondition error before any backend call; it neither returns nor fails with a
\* division by zero.
C5_EmptyReferencesRejected ==
    (node = "verify" /\ reference_images = <<>>) =>
        /\ calls_made = 0
        /\ error # "ZeroDivisionError"
        /\ pc # "returned"
        /\ pc = "raised" => error = "PreconditionError"

\* C6: once a DeepFace.verify call has failed the run has raised the backend's error,
\* has returned nothing (the probes classified before are lost with it) and makes no
\* further call.
C6_FailureAbortsRun ==
    (node = "verify" /\ calls_made # calls_ok) =>
        /\ pc = "raised"
        /\ error = "BackendError"
        /\ result = NoResult
        /\ calls_made = calls_ok + 1
        /\ ~ENABLED Next

C6_Witness ==
    /\ node = "verify"
    /\ error = "BackendError"
    /\ Len(verified_image_tuples) + Len(rejected_image_tuples) > 0
    /\ reference_image_counter > 1

RECURSIVE FloatSum(_, _)
\* ((0 + d[1]) + d[2]) + ... + d[n] in floats, d[i] the distance of answers[i]
FloatSum(answers, n) ==
    IF n = 0 THEN 0 ELSE FloatAdd(FloatSum(answers, n - 1), answers[n][1])

RECURSIVE ExactSum(_, _)
ExactSum(answers, n) == IF n = 0 THEN 0 ELSE ExactSum(answers, n - 1) + answers[n][1]

VerifiedCount(answers) == Cardinality({i \in 1..Len(answers) : answers[i][2]})

Permuted(answers, f) == [i \in 1..Len(answers) |-> answers[f[i]]]

\* No addition of the running sum over answers is rounded.
SumsExactly(answers) == \A n \in 1..Len(answers) : IsFloat(ExactSum(answers, n))

\* The aggregates DeepfaceVerifyNode.run would emit for these answers in this order.
AverageOf(answers) == FloatDiv(FloatSum(answers, Len(answers)), Len(answers))
RatioOf(answers) == Round2(VerifiedCount(answers), Len(answers))

\* C7 as stated: average_distance and verified_ratio of the probe just classified are
\* those of its own answers, verified_ratio is in [0, 1], and both are the same for
\* every traversal order of the references.
C7_OrderIndependent ==
    JustClassified =>
        LET row == RowOf(images[image_counter])
        IN  \A f \in Perms(Len(probe_results)) :
                /\ row[2] = AverageOf(Permuted(probe_results, f))
                /\ row[3] = RatioOf(Permuted(probe_results, f))
                /\ row[3] \in 0..100

\* The non-empty answer lists a probe can get for which every traversal order gives the same
\* verified_ratio, and the same average_distance as any other order that, like it,
\* rounds no sum.
OrderInsensitive ==
    {answers \in SeqsUpTo(Distances \X BOOLEAN, MaxRefs) \ {<<>>} :
        \A f \in Perms(Len(answers)) :
            /\ RatioOf(Permuted(answers, f)) = RatioOf(answers)
            /\ (SumsExactly(answers) /\ SumsExactly(Permuted(answers, f)))
                   => AverageOf(Permuted(answers, f)) = AverageOf(answers)}

\* C7 amended: average_distance is the float sum of the probe's own distances, added in
\* traversal order, divided by the number of references; verified_ratio is the verified
\* count over the number of references rounded to hundredths, within [0, 1], whatever
\* the order; average_distance is the same for two orders when neither rounds a sum.
C7_AggregatesOfOwnAnswers ==
    JustClassified =>
        LET row == RowOf(images[image_counter])
        IN  /\ Len(probe_results) = Len(reference_images)
            /\ row[2] = AverageOf(probe_results)
            /\ row[3] = RatioOf(probe_results)
            /\ row[3] \in 0..100
            /\ 100 * VerifiedCount(probe_results) - 50 <= row[3] * Len(reference_images)
            /\ row[3] * Len(reference_images) <= 100 * VerifiedCount(probe_results) + 50
            /\ probe_results \in OrderInsensitive

\* The second probe's aggregates differ from the first's, and a sum was rounded.
C7_Witness ==
    /\ JustClassified
    /\ image_counter = 2
    /\ Len(reference_images) = 3
    /\ ~SumsExactly(probe_results)
    /\ RowOf(2)[2] # RowOf(1)[2]
    /\ RowOf(2)[3] = 67

ExtractReturned == node = "extract" /\ pc = "returned"

\* The crops of all detections, in call order and detection order.
RECURSIVE AllCrops(_, _)
AllCrops(dets, n) == IF n = 0 THEN <<>> ELSE AllCrops(dets, n - 1) \o dets[n]

\* C8: DeepfaceExtractFacesNode.run returns every crop the backend returned, in image
\* order and then detection order, each once; with no crop at all, the empty sequence.
C8_FlatConcatenation ==
    ExtractReturned =>
        /\ Len(detections) = Len(images)
        /\ \A i \in 1..Len(images) : \A k \in 1..Len(detections[i]) :
               detections[i][k][1] = images[i]
        /\ result = <<AllCrops(detections, Len(detections))>>
        /\ (\A i \in 1..Len(detections) : detections[i] = <<>>) => result = << <<>> >>

C8_Witness ==
    /\ ExtractReturned
    /\ Len(images) >= 2
    /\ \A i \in 1..Len(images) : Len(detections[i]) >= 2

\* C9: a detection failure (no face found) on one image does not abort
\* DeepfaceExtractFacesNode.run: nothing is raised, the image contributes no crop,
\* every image is passed to the backend and the other images' crops are returned.
C9_DetectionFailureTolerated ==
    node = "extract" =>
        /\ error = "none" /\ pc # "raised"
        /\ calls_made = calls_ok
        /\ pc = "image_loop" => calls_made = image_counter
        /\ ExtractReturned =>
               /\ calls_made = Len(images)
               /\ \A i \in 1..Len(images) :
                      Cardinality({k \in 1..Len(result[1]) : result[1][k][1] = images[i]})
                          = Len(detections[i])

C9_Witness ==
    /\ ExtractReturned
    /\ Len(images) = 3
    /\ detections[1] # <<>> /\ detections[2] = <<>> /\ detections[3] # <<>>
    /\ Len(result[1]) = Len(detections[1]) + Len(detections[3])

\* C10 as stated: at every point of DeepfaceVerifyNode.run the progress advancements
\* equal the comparisons completed.
C10_AdvancedPerCompleted ==
    node = "verify" =>
        /\ pc # "start" => progress_total = Len(images) * Len(reference_images)
        /\ progress_count = calls_ok
        /\ pc = "returned" => progress_count = progress_total

\* C10 amended: the total |probes| x |references| is declared before the first
\* comparison, and the progress is advanced once per comparison just before the backend
\* is called: the advancements equal the calls made, plus one while a call is about to
\* be made, a call that fails included; on normal return they equal the total.
C10_AdvancedPerCallStarted ==
    node = "verify" =>
        /\ pc = "start" => calls_made = 0 /\ progress_count = 0
        /\ pc # "start" => progress_total = Len(images) * Len(reference_images)
        /\ progress_count = calls_made + (IF pc = "verify" THEN 1 ELSE 0)
        /\ calls_made = calls_ok + (IF error = "BackendError" THEN 1 ELSE 0)
        /\ pc = "returned" => progress_count = progress_total /\ calls_ok = progress_total

C10_Witness ==
    /\ node = "verify"
    /\ error = "BackendError"
    /\ calls_ok >= 1
    /\ progress_count = calls_ok + 1

\* Every float of the state is a float of the model.
TypeOK ==
    /\ IsFloat(total_distance) /\ IsFloat(threshold)
    /\ \A d \in Distances : IsFloat(d)
    /\ \A i \in 1..Len(verified_image_tuples) : IsFloat(verified_image_tuples[i][2])
    /\ \A i \in 1..Len(rejected_image_tuples) : IsFloat(rejected_image_tuples[i][2])

=============================================================================
